---- MODULE Spec2Model ----
(***************************************************************************)
(* Milou result pipeline (lib/resultsmodel.cpp).                           *)
(*                                                                         *)
(*   RunnerResultsModel -> SortProxyModel -> CategoryDistributionProxyModel*)
(*     -> KDescendantsProxyModel -> HideRootLevelProxyModel                *)
(*       -> DuplicateDetectorProxyModel                                    *)
(*                                                                         *)
(* Conventions                                                             *)
(*  - A QString is the sequence of its code points ("foo" = <<102,111,111>>)*)
(*    so that contains(), split() and the default comparator are computed. *)
(*  - A QModelIndex of a two-level tree is [parent, row]; rows are 0-based *)
(*    as in the code and parent = -1 stands for the invalid (root) parent. *)
(*  - An operator that reads a model takes it as its first parameters:     *)
(*    source is the tree sourceModel() shows, words is m_words, limit is   *)
(*    m_limit, sorted and shown are the proxies' row mappings.             *)
(*  - A relevance (qreal) is <<whole, ulps>>, the real number              *)
(*    whole + ulps * 10^-12 with 0 <= ulps < 10^12, which keeps            *)
(*    qFuzzyCompare's 10^12 factor exact inside TLC's integers.            *)
(***************************************************************************)
EXTENDS Integers, Sequences, FiniteSets, TLC

VARIABLES
    tree,         \* RunnerResultsModel: Seq of [name, matches], matches: Seq of [display, type, relevance]
    queryString,  \* RunnerResultsModel's query string
    queryRunner,  \* the runner id RunnerResultsModel's query was issued for
    m_words,      \* SortProxyModel::m_words
    m_limit,      \* CategoryDistributionProxyModel::m_limit
    sortMap,      \* SortProxyModel's proxy-to-source row mapping
    distMap,      \* CategoryDistributionProxyModel's proxy-to-source row mapping
    m_runner,     \* ResultsModel::Private::runner, a place of the runner registry or nullptr
    emitted,      \* how often the last step emitted limitChanged and runnerChanged
    lastCall      \* the last call of setRunner / run / runAction / getMimeData and its outcome

vars == <<tree, queryString, queryRunner, m_words, m_limit, sortMap, distMap,
          m_runner, emitted, lastCall>>

(***************************************************************************)
(* Bounds of the model.                                                    *)
(***************************************************************************)
MaxLimit == 6
MaxItems == 3
BatchItems == 10
MaxCategories == 3
MaxRow == 2

(***************************************************************************)
(* QString and qreal operations used by the code.                          *)
(***************************************************************************)
Space == 32

Abs(x) == IF x < 0 THEN 0 - x ELSE x

RowsUpTo(n) == [i \in 1..n |-> i - 1]

\* QChar::toLower on the letters A..Z
ToLower(c) == IF c >= 65 /\ c <= 90 THEN c + 32 ELSE c

FoldCase(s) == [i \in 1..Len(s) |-> ToLower(s[i])]

IsInfix(w, s) ==
    \E k \in 0..(Len(s) - Len(w)) : \A i \in 1..Len(w) : s[k + i] = w[i]

\* display.contains(word, Qt::CaseInsensitive)
containsCaseInsensitive(display, word) == IsInfix(FoldCase(word), FoldCase(display))

RECURSIVE SplitFrom(_, _, _, _)
SplitFrom(s, i, cur, acc) ==
    IF i > Len(s)
    THEN IF cur = <<>> THEN acc ELSE Append(acc, cur)
    ELSE IF s[i] = Space
         THEN SplitFrom(s, i + 1, <<>>, IF cur = <<>> THEN acc ELSE Append(acc, cur))
         ELSE SplitFrom(s, i + 1, Append(cur, s[i]), acc)

\* queryString.split(QLatin1Char(' '), Qt::SkipEmptyParts)
split(s) == SplitFrom(s, 1, <<>>, <<>>)

\* QString::compare(a, b, Qt::CaseSensitive) < 0: code point order
StringLess(a, b) ==
    \E k \in 1..Len(b) :
        /\ \A i \in 1..(k - 1) : i <= Len(a) /\ a[i] = b[i]
        /\ (k > Len(a) \/ a[k] < b[k])

\* relevanceA < relevanceB on reals whole + ulps * 10^-12
RealLess(a, b) == a[1] < b[1] \/ (a[1] = b[1] /\ a[2] < b[2])

\* qFuzzyCompare(p1, p2): |p1 - p2| * 10^12 <= min(|p1|, |p2|).
\* Different whole parts differ by about 1, far beyond the tolerance; with
\* the same whole part w the test is |ulps1 - ulps2| <= w + min(ulps) * 10^-12,
\* that is |ulps1 - ulps2| <= w on integers.
qFuzzyCompare(p1, p2) == p1[1] = p2[1] /\ Abs(p1[2] - p2[2]) <= p1[1]

(***************************************************************************)
(* RunnerResultsModel: the source tree and the data of its indexes.        *)
(***************************************************************************)
Index(parent, row) == [parent |-> parent, row |-> row]

isValidParent(idx) == idx.parent # -1

\* sourceModel()->rowCount(parent) on the source tree
rowCount(source, parentRow) ==
    IF parentRow = -1 THEN Len(source) ELSE Len(source[parentRow + 1].matches)

matchAt(source, idx) == source[idx.parent + 1].matches[idx.row + 1]

MaxInt(S) == CHOOSE x \in S : \A y \in S : y <= x

MaxReal(S) == CHOOSE x \in S : \A y \in S : ~RealLess(x, y)

\* idx.data(Qt::DisplayRole): a category shows its name
displayOf(source, idx) ==
    IF isValidParent(idx) THEN matchAt(source, idx).display ELSE source[idx.row + 1].name

\* idx.data(ResultsModel::TypeRole): a category has the highest type within
typeOf(source, idx) ==
    IF isValidParent(idx)
    THEN matchAt(source, idx).type
    ELSE MaxInt({source[idx.row + 1].matches[k].type :
                    k \in 1..Len(source[idx.row + 1].matches)})

\* idx.data(ResultsModel::RelevanceRole): a category has the highest relevance within
relevanceOf(source, idx) ==
    IF isValidParent(idx)
    THEN matchAt(source, idx).relevance
    ELSE MaxReal({source[idx.row + 1].matches[k].relevance :
                     k \in 1..Len(source[idx.row + 1].matches)})

(***************************************************************************)
(* SortProxyModel                                                          *)
(***************************************************************************)
containsAllWords(words, display) ==
    \A w \in 1..Len(words) : containsCaseInsensitive(display, words[w])

categoryHasMatchWithAllWords(source, words, categoryIdx) ==
    \E i \in 0..(rowCount(source, categoryIdx.row) - 1) :
        containsAllWords(words, displayOf(source, Index(categoryIdx.row, i)))

\* what lessThan reads of a source index: whether its parent is valid, its data, and
\* for a category whether it has a match with all words
indexData(source, words, idx) ==
    [parentIsValid |-> isValidParent(idx),
     hasMatchWithAllWords |-> IF isValidParent(idx)
                              THEN FALSE
                              ELSE categoryHasMatchWithAllWords(source, words, idx),
     type |-> typeOf(source, idx),
     relevance |-> relevanceOf(source, idx),
     display |-> displayOf(source, idx)]

\* the children of parentRow as lessThan reads them, from row r on
RECURSIVE childrenData(_, _, _, _)
childrenData(source, words, parentRow, r) ==
    IF r >= rowCount(source, parentRow)
    THEN <<>>
    ELSE <<indexData(source, words, Index(parentRow, r))>>
         \o childrenData(source, words, parentRow, r + 1)

\* mutant of defaultLessThan: rows that tie on type and relevance compare equal
defaultLessThanNever(sourceA, sourceB) == FALSE

\* QSortFilterProxyModel::lessThan: compares the sort role (display) data
defaultLessThan(sourceA, sourceB) == StringLess(sourceA.display, sourceB.display)

lessThanByRelevance(sourceA, sourceB) ==
    IF ~qFuzzyCompare(sourceA.relevance, sourceB.relevance)
    THEN RealLess(sourceA.relevance, sourceB.relevance)
    ELSE defaultLessThan(sourceA, sourceB)

lessThanByType(sourceA, sourceB) ==
    IF sourceA.type # sourceB.type
    THEN sourceA.type < sourceB.type
    ELSE lessThanByRelevance(sourceA, sourceB)

\* mutant of lessThan: the result of the query-word test is returned the wrong way round
lessThanWordsInverted(sourceA, sourceB) ==
    IF /\ ~sourceA.parentIsValid
       /\ ~sourceB.parentIsValid
       /\ sourceA.hasMatchWithAllWords # sourceB.hasMatchWithAllWords
    THEN sourceA.hasMatchWithAllWords /\ ~sourceB.hasMatchWithAllWords
    ELSE lessThanByType(sourceA, sourceB)

\* SortProxyModel::lessThan
lessThan(sourceA, sourceB) ==
    IF /\ ~sourceA.parentIsValid
       /\ ~sourceB.parentIsValid
       /\ sourceA.hasMatchWithAllWords # sourceB.hasMatchWithAllWords
    THEN ~sourceA.hasMatchWithAllWords /\ sourceB.hasMatchWithAllWords
    ELSE lessThanByType(sourceA, sourceB)

\* sort(0, Qt::DescendingOrder): row r1 goes before row r2; data are the rows' data
sortsBefore(data, r1, r2) == lessThan(data[r2 + 1], data[r1 + 1])

\* the place of row r among the sorted rows: it moves left past the rows it sorts before
RECURSIVE insertionPoint(_, _, _, _)
insertionPoint(data, rows, r, n) ==
    IF n > 0 /\ sortsBefore(data, r, rows[n])
    THEN insertionPoint(data, rows, r, n - 1)
    ELSE n

InsertAt(rows, n, r) == SubSeq(rows, 1, n) \o <<r>> \o SubSeq(rows, n + 1, Len(rows))

\* stable sort of the rows by insertion, one row after the other
RECURSIVE StableSort(_, _, _)
StableSort(data, rows, r) ==
    IF r >= Len(data)
    THEN rows
    ELSE StableSort(data, InsertAt(rows, insertionPoint(data, rows, r, Len(rows)), r), r + 1)

\* one row for each of the different data among the rows
distinctRows(data) ==
    {r \in 0..(Len(data) - 1) : \A q \in 0..(r - 1) : data[q + 1] # data[r + 1]}

\* what std::stable_sort requires of its comparator on the rows it sorts
isStrictWeakOrdering(data, rows) ==
    /\ \A x \in rows : ~sortsBefore(data, x, x)
    /\ \A x, y \in rows : sortsBefore(data, x, y) => ~sortsBefore(data, y, x)
    /\ \A x, y \in rows :
           sortsBefore(data, x, y) =>
               \A z \in rows : sortsBefore(data, y, z) => sortsBefore(data, x, z)
    /\ \A x, y \in rows :
           (~sortsBefore(data, x, y) /\ ~sortsBefore(data, y, x)) =>
               \A z \in rows :
                   (~sortsBefore(data, y, z) /\ ~sortsBefore(data, z, y)) =>
                       (~sortsBefore(data, x, z) /\ ~sortsBefore(data, z, x))

\* an order of all rows in which no row sorts before the row in front of it
isLocallySorted(data, order) ==
    /\ \A i, j \in 1..Len(order) : i # j => order[i] # order[j]
    /\ \A i \in 1..(Len(order) - 1) : ~sortsBefore(data, order[i + 1], order[i])

\* the orders sort(0, Qt::DescendingOrder) can leave rows in: the stable sort when
\* lessThan is a strict weak ordering of them; otherwise the outcome depends on the
\* sorting algorithm and on the order of arrival, and any order that agrees with every
\* comparison of neighbours is possible
sortOutcomes(data) ==
    IF isStrictWeakOrdering(data, distinctRows(data))
    THEN {StableSort(data, <<>>, 0)}
    ELSE {order \in [1..Len(data) -> 0..(Len(data) - 1)] : isLocallySorted(data, order)}

RECURSIVE subOutcomes(_, _, _)
subOutcomes(source, words, c) ==
    IF c = 0
    THEN {<<>>}
    ELSE {Append(subs, order) :
             subs \in subOutcomes(source, words, c - 1),
             order \in sortOutcomes(childrenData(source, words, c - 1, 0))}

\* the mappings the proxy can have after a sort: top-level rows, and per source
\* category its rows
sortedMappings(source, words) ==
    {[top |-> order, sub |-> subs] :
        order \in sortOutcomes(childrenData(source, words, -1, 0)),
        subs \in subOutcomes(source, words, Len(source))}

\* SortProxyModel::rowCount(parent)
sortRowCount(sorted, parentRow) ==
    IF parentRow = -1
    THEN Len(sorted.top)
    ELSE Len(sorted.sub[sorted.top[parentRow + 1] + 1])

\* SortProxyModel::mapToSource
sortMapToSource(sorted, idx) ==
    IF isValidParent(idx)
    THEN Index(sorted.top[idx.parent + 1],
               sorted.sub[sorted.top[idx.parent + 1] + 1][idx.row + 1])
    ELSE Index(-1, sorted.top[idx.row + 1])

(***************************************************************************)
(* CategoryDistributionProxyModel                                          *)
(***************************************************************************)
Min(a, b) == IF a < b THEN a ELSE b

Max(a, b) == IF a > b THEN a ELSE b

\* mutant of CeilDiv: the quotient is truncated instead of rounded up
floorDiv(a, b) == a \div b

\* std::ceil(a / qreal(b)) for a > 0, b > 0
CeilDiv(a, b) == (a + b - 1) \div b

\* every category gets at least one item shown
availableSpace(limit, itemsBefore, categoryCount) ==
    limit - itemsBefore - CeilDiv(limit, categoryCount)

\* mutant of cappedShare: the share of the limit is not applied
uncappedShare(limit, space, i) == space

\* mutant of cappedShare: the share is a quarter of the limit for the first category
\* and grows by a quarter with every position
shareGrowingWithPosition(limit, space, i) == Min(space, CeilDiv(limit * (i + 1), 4))

\* first category gets max half the total limit, second category a third, etc
cappedShare(limit, space, i) == Min(space, CeilDiv(limit, i + 2))

\* mutant of atLeastOne: the minimum of one item is not applied
noMinimum(maxItems) == maxItems

\* at least show one item per category
atLeastOne(maxItems) == Max(1, maxItems)

\* maxItemsInCategory in the loop's pass for category i
loopMaxItems(sorted, limit, itemsBefore, i) ==
    atLeastOne(cappedShare(limit,
                           availableSpace(limit, itemsBefore, sortRowCount(sorted, -1)),
                           i))

\* the loop of filterAcceptsRow: pass i with the itemsBefore of the earlier passes
RECURSIVE distributionLoop(_, _, _, _, _)
distributionLoop(sorted, limit, last, i, itemsBefore) ==
    IF i = last
    THEN loopMaxItems(sorted, limit, itemsBefore, i)
    ELSE distributionLoop(sorted, limit, last, i + 1,
                          itemsBefore + Min(sortRowCount(sorted, i),
                                            loopMaxItems(sorted, limit, itemsBefore, i)))

maxItemsInCategory(sorted, limit, sourceParentRow) ==
    IF sortRowCount(sorted, -1) > 1
    THEN distributionLoop(sorted, limit, sourceParentRow, 0, 0)
    ELSE limit

\* mutant of unlimited: only a negative limit counts as unlimited
unlimitedBelowZero(limit) == limit < 0

unlimited(limit) == limit <= 0

\* mutant of belowMaximum: the row at the maximum is let through
notAboveMaximum(sourceRow, maxItems) == ~(sourceRow > maxItems)

belowMaximum(sourceRow, maxItems) == ~(sourceRow >= maxItems)

\* CategoryDistributionProxyModel::filterAcceptsRow; sourceParentRow = -1 is the invalid parent
distributionFilterAcceptsRow(sorted, limit, sourceRow, sourceParentRow) ==
    IF unlimited(limit)
    THEN TRUE
    ELSE IF sourceParentRow = -1
         THEN TRUE
         ELSE belowMaximum(sourceRow, maxItemsInCategory(sorted, limit, sourceParentRow))

\* the proxy's mapping after invalidateFilter(): the accepted rows of the sorted model
filteredMapping(sorted, limit) ==
    [top |-> SelectSeq(RowsUpTo(sortRowCount(sorted, -1)),
                       LAMBDA r : distributionFilterAcceptsRow(sorted, limit, r, -1)),
     sub |-> [p \in 1..sortRowCount(sorted, -1) |->
                SelectSeq(RowsUpTo(sortRowCount(sorted, p - 1)),
                          LAMBDA r : distributionFilterAcceptsRow(sorted, limit, r, p - 1))]]

\* CategoryDistributionProxyModel::rowCount(parent)
distRowCount(shown, parentRow) ==
    IF parentRow = -1
    THEN Len(shown.top)
    ELSE Len(shown.sub[shown.top[parentRow + 1] + 1])

\* CategoryDistributionProxyModel::mapToSource
distMapToSource(shown, idx) ==
    IF isValidParent(idx)
    THEN Index(shown.top[idx.parent + 1],
               shown.sub[shown.top[idx.parent + 1] + 1][idx.row + 1])
    ELSE Index(-1, shown.top[idx.row + 1])

(***************************************************************************)
(* KDescendantsProxyModel and HideRootLevelProxyModel                      *)
(***************************************************************************)
\* the rows of the flattened model, each the index of the distribution model it shows
RECURSIVE descendantsFrom(_, _)
descendantsFrom(shown, i) ==
    IF i >= distRowCount(shown, -1)
    THEN <<>>
    ELSE <<Index(-1, i)>>
         \o [k \in 1..distRowCount(shown, i) |-> Index(i, k - 1)]
         \o descendantsFrom(shown, i + 1)

flattenRows == descendantsFrom(distMap, 0)

\* KModelIndexProxyMapper(sourceModel(), m_treeModel).mapLeftToRight of an index of the
\* flattened model, given as the index of the distribution model it shows
mapLeftToRight(flatIdx) == sortMapToSource(sortMap, distMapToSource(distMap, flatIdx))

\* mutant of hideRootFilterAcceptsRow: every row of the flattened model is kept
acceptsEveryRow(flatIdx) == TRUE

\* HideRootLevelProxyModel::filterAcceptsRow
hideRootFilterAcceptsRow(flatIdx) == isValidParent(mapLeftToRight(flatIdx))

\* the final list: per row the index of the source tree it shows
finalList ==
    LET kept == SelectSeq(flattenRows, LAMBDA f : hideRootFilterAcceptsRow(f))
    IN  [i \in 1..Len(kept) |-> mapLeftToRight(kept[i])]

(***************************************************************************)
(* DuplicateDetectorProxyModel                                             *)
(***************************************************************************)
\* mutant of sameDisplay: the texts are compared ignoring case
sameDisplayIgnoringCase(a, b) == FoldCase(a) = FoldCase(b)

sameDisplay(a, b) == a = b

\* the loop of data(): duplicatesCount with the rows from i on still to look at
RECURSIVE duplicatesLoop(_, _, _, _)
duplicatesLoop(list, display, i, duplicatesCount) ==
    IF i > Len(list)
    THEN FALSE
    ELSE IF sameDisplay(displayOf(tree, list[i]), display)
         THEN IF duplicatesCount + 1 = 2
              THEN TRUE
              ELSE duplicatesLoop(list, display, i + 1, duplicatesCount + 1)
         ELSE duplicatesLoop(list, display, i + 1, duplicatesCount)

\* DuplicateDetectorProxyModel::data(index, ResultsModel::DuplicateRole) for a row of list
duplicateData(list, row) ==
    duplicatesLoop(list, displayOf(tree, list[row + 1]), 1, 0)

(***************************************************************************)
(* The results the providers can deliver.                                  *)
(***************************************************************************)
sFoo == <<102, 111, 111>>

sFooUpper == <<70, 111, 111>>

sBar == <<98, 97, 114>>

sFooBar == <<102, 111, 111, 32, 98, 97, 114>>

sBarFoo == <<32, 66, 65, 82, 32, 32, 102, 111, 111, 32>>

sApps == <<65, 112, 112, 115>>

sFiles == <<70, 105, 108, 101, 115>>

sWeb == <<87, 101, 98>>

Queries == {<<>>, sFoo, sBarFoo}

Limits == (-1)..MaxLimit

Result(category, display, type, relevance) ==
    [category |-> category,
     match |-> [display |-> display, type |-> type, relevance |-> relevance]]

MatchPool ==
    {Result(sApps, sFooBar, 30, <<1, 2>>),
     Result(sApps, sFoo, 100, <<0, 0>>),
     Result(sFiles, sBar, 30, <<1, 1>>),
     Result(sFiles, sFooUpper, 100, <<1, 0>>),
     Result(sWeb, sFooBar, 30, <<1, 0>>),
     Result(sWeb, sFooUpper, 30, <<0, 0>>)}

CategoryName(k) == <<67, 48 + k>>

Filler(k) == Result(CategoryName(k), sFoo, 30, <<1, 0>>)

(***************************************************************************)
(* Operations                                                              *)
(***************************************************************************)
categoryRow(name) ==
    IF \E c \in 1..Len(tree) : tree[c].name = name
    THEN (CHOOSE c \in 1..Len(tree) : tree[c].name = name) - 1
    ELSE -1

Present(e) ==
    /\ categoryRow(e.category) # -1
    /\ \E k \in 1..rowCount(tree, categoryRow(e.category)) :
           matchAt(tree, Index(categoryRow(e.category), k - 1)) = e.match

RemoveAt(s, i) == SubSeq(s, 1, i - 1) \o SubSeq(s, i + 1, Len(s))

\* the tree after the provider delivered result e
treeWith(e) ==
    IF categoryRow(e.category) = -1
    THEN Append(tree, [name |-> e.category, matches |-> <<e.match>>])
    ELSE [tree EXCEPT ![categoryRow(e.category) + 1].matches = Append(@, e.match)]

\* the tree after the provider withdrew the match at row r of category c
treeWithout(c, r) ==
    IF rowCount(tree, c) = 1
    THEN RemoveAt(tree, c + 1)
    ELSE [tree EXCEPT ![c + 1].matches = RemoveAt(@, r + 1)]

\* dynamicSortFilter / invalidate(): the sort proxy sorts its source anew
Resort == sortMap' \in sortedMappings(tree', m_words')

\* mutant of Refilter: only a change of the number of categories invalidates the filter
RefilterOnCategoryChange ==
    distMap' = IF Len(sortMap'.top) = Len(sortMap.top)
               THEN distMap
               ELSE filteredMapping(sortMap', m_limit')

\* rowsInserted / rowsMoved / rowsRemoved / layoutChanged of the sorted model, invalidateFilter()
Refilter == distMap' = filteredMapping(sortMap', m_limit')

(***************************************************************************)
(* ResultsModel: the runner registry, signals and row operations           *)
(***************************************************************************)
nullptr == 0

sRunnerA == <<97>>

sRunnerB == <<98>>

sUnknown == <<117>>

\* the runners runnerManager() knows
Runners ==
    <<[id |-> sRunnerA, name |-> <<65>>, icon |-> <<105, 65>>],
      [id |-> sRunnerB, name |-> <<66>>, icon |-> <<105, 66>>]>>

RunnerIds == {<<>>, sRunnerA, sRunnerB, sUnknown}

\* mutant of runnerById: an unknown id yields the first runner of the registry
runnerByIdOrFirst(runnerId) ==
    IF \E k \in 1..Len(Runners) : Runners[k].id = runnerId
    THEN CHOOSE k \in 1..Len(Runners) : Runners[k].id = runnerId
    ELSE 1

\* runnerManager()->runner(runnerId): the runner of that id, or nullptr
runnerById(runnerId) ==
    IF \E k \in 1..Len(Runners) : Runners[k].id = runnerId
    THEN CHOOSE k \in 1..Len(Runners) : Runners[k].id = runnerId
    ELSE nullptr

\* ResultsModel::runner
runner == IF m_runner # nullptr THEN Runners[m_runner].id ELSE <<>>

\* ResultsModel::runnerName
runnerName == IF m_runner # nullptr THEN Runners[m_runner].name ELSE <<>>

\* ResultsModel::runnerIcon
runnerIcon == IF m_runner # nullptr THEN Runners[m_runner].icon ELSE <<>>

NoSignals == [limitChanged |-> 0, runnerChanged |-> 0]

NoCall ==
    [op |-> "none", id |-> <<>>, row |-> -1, resultsIdx |-> Index(-1, -1),
     adapterCalled |-> FALSE, returned |-> "void"]

\* QModelIndex::isValid
isValid(idx) == idx.row >= 0

\* mutant of resultsIndexOf: a row outside the list is mapped to the nearest row
resultsIndexOfClamped(row) ==
    IF Len(finalList) = 0
    THEN Index(-1, -1)
    ELSE finalList[Max(1, Min(Len(finalList), row + 1))]

\* mapper.mapLeftToRight(idx) for the index idx of a row of ResultsModel: the index of
\* RunnerResultsModel the row shows, invalid for a row the model does not have
resultsIndexOf(row) ==
    IF row >= 0 /\ row < Len(finalList)
    THEN finalList[row + 1]
    ELSE Index(-1, -1)

Init ==
    /\ tree = <<>>
    /\ queryString = <<>>
    /\ queryRunner = <<>>
    /\ m_words = <<>>
    /\ m_limit = 0
    /\ sortMap \in sortedMappings(tree, m_words)
    /\ distMap = filteredMapping(sortMap, m_limit)
    /\ m_runner = nullptr
    /\ emitted = NoSignals
    /\ lastCall = NoCall

AddMatch(e) ==
    /\ ~Present(e)
    /\ tree' = treeWith(e)
    /\ UNCHANGED <<queryString, queryRunner, m_words, m_limit, m_runner, lastCall>>
    /\ emitted' = NoSignals
    /\ Resort
    /\ Refilter

\* a provider delivers one more result of category k
AddFiller(k) ==
    /\ IF categoryRow(CategoryName(k)) = -1
       THEN k = Len(tree) + 1
       ELSE rowCount(tree, categoryRow(CategoryName(k))) < MaxItems
    /\ tree' = treeWith(Filler(k))
    /\ UNCHANGED <<queryString, queryRunner, m_words, m_limit, m_runner, lastCall>>
    /\ emitted' = NoSignals
    /\ Resort
    /\ Refilter

\* a provider delivers the results of a new category k in one batch
AddBatch(k) ==
    /\ categoryRow(CategoryName(k)) = -1
    /\ k = Len(tree) + 1
    /\ tree' = Append(tree, [name |-> CategoryName(k),
                             matches |-> [i \in 1..BatchItems |-> Filler(k).match]])
    /\ UNCHANGED <<queryString, queryRunner, m_words, m_limit, m_runner, lastCall>>
    /\ emitted' = NoSignals
    /\ Resort
    /\ Refilter

RemoveMatch(c, r) ==
    /\ tree' = treeWithout(c, r)
    /\ UNCHANGED <<queryString, queryRunner, m_words, m_limit, m_runner, lastCall>>
    /\ emitted' = NoSignals
    /\ Resort
    /\ Refilter

\* a provider withdraws the last result of category c
RemoveFiller(c) ==
    /\ rowCount(tree, c) <= MaxItems
    /\ RemoveMatch(c, rowCount(tree, c) - 1)

\* ResultsModel::clear
clear ==
    /\ tree' = <<>>
    /\ UNCHANGED <<queryString, queryRunner, m_words, m_limit, m_runner, lastCall>>
    /\ emitted' = NoSignals
    /\ Resort
    /\ Refilter

\* mutant of setQueryString: the words are stored but the order is not invalidated
setQueryStringWithoutInvalidate(q) ==
    /\ queryString' = q
    /\ queryRunner' = runner
    /\ m_words' = split(q)
    /\ emitted' = NoSignals
    /\ UNCHANGED <<tree, m_limit, m_runner, lastCall, sortMap, distMap>>

\* ResultsModel::setQueryString: the query is handed to RunnerResultsModel with the
\* current runner(); SortProxyModel::setQueryString runs on queryStringChanged
setQueryString(q) ==
    /\ queryString' = q
    /\ queryRunner' = runner
    /\ emitted' = NoSignals
    /\ UNCHANGED <<tree, m_limit, m_runner, lastCall>>
    /\ IF m_words # split(q)
       THEN /\ m_words' = split(q)
            /\ Resort
            /\ Refilter
       ELSE UNCHANGED <<m_words, sortMap, distMap>>

\* mutant of setLimit: the value is stored and signalled without comparing it first
setLimitAlwaysNotifies(newLimit) ==
    /\ m_limit' = newLimit
    /\ emitted' = [NoSignals EXCEPT !.limitChanged = 1]
    /\ UNCHANGED <<tree, queryString, queryRunner, m_words, sortMap, m_runner, lastCall>>
    /\ Refilter

\* ResultsModel::setLimit -> CategoryDistributionProxyModel::setLimit; limitChanged of
\* the distribution model is forwarded as ResultsModel::limitChanged
setLimit(newLimit) ==
    IF m_limit = newLimit
    THEN /\ emitted' = NoSignals
         /\ UNCHANGED <<tree, queryString, queryRunner, m_words, m_limit, sortMap, distMap,
                        m_runner, lastCall>>
    ELSE /\ m_limit' = newLimit
         /\ emitted' = [NoSignals EXCEPT !.limitChanged = 1]
         /\ UNCHANGED <<tree, queryString, queryRunner, m_words, sortMap, m_runner, lastCall>>
         /\ Refilter

\* ResultsModel::resetLimit
resetLimit == setLimit(0)

\* ResultsModel::setRunner
setRunner(runnerId) ==
    /\ lastCall' = [NoCall EXCEPT !.op = "setRunner", !.id = runnerId]
    /\ UNCHANGED <<tree, queryString, queryRunner, m_words, m_limit, sortMap, distMap>>
    /\ IF runnerId = runner
       THEN /\ emitted' = NoSignals
            /\ UNCHANGED m_runner
       ELSE /\ m_runner' = IF runnerId = <<>> THEN nullptr ELSE runnerById(runnerId)
            /\ emitted' = [NoSignals EXCEPT !.runnerChanged = 1]

\* a row operation of ResultsModel op(index(row, 0)): RunnerResultsModel's operation is
\* called with the mapped index and decides the result, unless the mapped index is invalid
rowOperation(op, row, failure, results) ==
    /\ emitted' = NoSignals
    /\ UNCHANGED <<tree, queryString, queryRunner, m_words, m_limit, sortMap, distMap,
                   m_runner>>
    /\ IF ~isValid(resultsIndexOf(row))
       THEN lastCall' = [NoCall EXCEPT !.op = op, !.row = row, !.returned = failure]
       ELSE \E result \in results :
                lastCall' = [op |-> op, id |-> <<>>, row |-> row,
                             resultsIdx |-> resultsIndexOf(row),
                             adapterCalled |-> TRUE, returned |-> result]

\* ResultsModel::run
run(row) == rowOperation("run", row, "false", {"true", "false"})

\* ResultsModel::runAction
runAction(row, actionNumber) ==
    rowOperation("runAction", row, "false", {"true", "false"})

\* ResultsModel::getMimeData
getMimeData(row) == rowOperation("getMimeData", row, "nullptr", {"mimeData"})

Next ==
    \/ \E e \in MatchPool : AddMatch(e)
    \/ \E c \in 0..(rowCount(tree, -1) - 1) :
          \E r \in 0..(rowCount(tree, c) - 1) : RemoveMatch(c, r)
    \/ clear
    \/ \E q \in Queries : setQueryString(q)
    \/ \E l \in Limits : setLimit(l)

Spec == Init /\ [][Next]_vars

NextBudget ==
    \/ \E k \in 1..MaxCategories : AddFiller(k)
    \/ \E k \in 1..MaxCategories : AddBatch(k)
    \/ \E c \in 0..(rowCount(tree, -1) - 1) : RemoveFiller(c)
    \/ \E l \in Limits : setLimit(l)

SpecBudget == Init /\ [][NextBudget]_vars

\* the results, queries and limits of the runs of the facade
FacadePool == {Result(sApps, sFooBar, 30, <<1, 2>>), Result(sFiles, sBar, 30, <<1, 1>>)}

FacadeQueries == {<<>>, sFoo}

FacadeLimits == {0, 1, MaxLimit}

RowInputs == (-1)..MaxRow

NextFacade ==
    \/ \E e \in FacadePool : AddMatch(e)
    \/ clear
    \/ \E q \in FacadeQueries : setQueryString(q)
    \/ \E l \in FacadeLimits : setLimit(l)
    \/ resetLimit
    \/ \E id \in RunnerIds : setRunner(id)
    \/ \E row \in RowInputs : run(row)
    \/ \E row \in RowInputs : runAction(row, 0)
    \/ \E row \in RowInputs : getMimeData(row)

SpecFacade == Init /\ [][NextFacade]_vars

(***************************************************************************)
(* Properties of the Category Budget Stage (checked under SpecBudget)      *)
(***************************************************************************)
categoryCount == sortRowCount(sortMap, -1)

\* the number of matches of the category at sorted position i
itemsIn(i) == sortRowCount(sortMap, i)

\* the match at row r of the category at sorted position i is shown
isVisible(i, r) ==
    /\ \E p \in 1..Len(distMap.top) : distMap.top[p] = i
    /\ \E k \in 1..Len(distMap.sub[i + 1]) : distMap.sub[i + 1][k] = r

visibleCount(i) == Cardinality({r \in 0..(itemsIn(i) - 1) : isVisible(i, r)})

RECURSIVE visibleUpTo(_)
visibleUpTo(i) == IF i < 0 THEN 0 ELSE visibleUpTo(i - 1) + visibleCount(i)

totalVisible == visibleUpTo(categoryCount - 1)

\* C1: with limit > 0 every category that contains a match shows at least one match:
\* its row 0 is accepted.
C1_EveryCategoryShowsAMatch ==
    m_limit > 0 =>
        \A i \in 0..(categoryCount - 1) : itemsIn(i) >= 1 => isVisible(i, 0)

\* limit 1 and three categories of several matches each: no space is left, and yet
\* each category shows exactly its first match
C1_Witness ==
    /\ m_limit = 1
    /\ categoryCount = 3
    /\ \A i \in 0..2 : itemsIn(i) >= 2 /\ isVisible(i, 0) /\ visibleCount(i) = 1

\* C2: for limit L > 0 and n >= 1 categories the matches shown, summed over all
\* categories, are at most L + (n - 1).
C2_TotalWithinBound ==
    (m_limit > 0 /\ categoryCount >= 1) => totalVisible <= m_limit + (categoryCount - 1)

\* a degenerate case: more matches are shown than the limit
C2_Witness ==
    /\ m_limit >= 2
    /\ categoryCount >= 2
    /\ totalVisible > m_limit

\* ceil(a / b) as the claims state it
ceilOf(a, b) == CHOOSE q \in 0..a : q * b >= a /\ (q - 1) * b < a

\* the budget formula as C3 states it: itemsBefore starts at 0 and grows by
\* min(actualItemsInCategory, maxItemsInCategory) per category
RECURSIVE statedItemsBefore(_)
RECURSIVE statedMaxItems(_)
statedItemsBefore(i) ==
    IF i = 0
    THEN 0
    ELSE statedItemsBefore(i - 1) + Min(itemsIn(i - 1), statedMaxItems(i - 1))

statedMaxItems(i) ==
    Max(1, Min(m_limit - statedItemsBefore(i) - ceilOf(m_limit, categoryCount),
               ceilOf(m_limit, i + 2)))

C4_UnlimitedShowsAll ==
    m_limit <= 0 =>
        /\ Len(distMap.top) = categoryCount
        /\ \A i \in 0..(categoryCount - 1) :
               \A r \in 0..(itemsIn(i) - 1) : isVisible(i, r)

\* the default limit 0 with three categories, one of them a whole batch, all shown
C4_Witness ==
    /\ m_limit = 0
    /\ categoryCount = 3
    /\ \E i \in 0..2 : itemsIn(i) = BatchItems
    /\ \A i \in 0..2 : visibleCount(i) = itemsIn(i)

categoryRows == 0..(Len(tree) - 1)

matchRows(c) == 0..(rowCount(tree, c) - 1)

\* the place of the source category c in the sorted view
posOf(c) == CHOOSE p \in 1..Len(sortMap.top) : sortMap.top[p] = c

\* the place of the match at source row r among the matches of source category c
matchPosOf(c, r) == CHOOSE p \in 1..Len(sortMap.sub[c + 1]) : sortMap.sub[c + 1][p] = r

dataOf(idx) == indexData(tree, m_words, idx)

queryWords == split(queryString)

\* the source category c contains a match whose display text contains every word of
\* the current query
hasAllQueryWords(c) ==
    \E k \in 1..Len(tree[c + 1].matches) :
        \A w \in 1..Len(queryWords) :
            containsCaseInsensitive(tree[c + 1].matches[k].display, queryWords[w])

\* "a ranks below b" decided by type, then relevance, then the default comparator
rankedBelowByTypeAndRelevance(a, b) ==
    IF typeOf(tree, a) # typeOf(tree, b)
    THEN typeOf(tree, a) < typeOf(tree, b)
    ELSE IF ~qFuzzyCompare(relevanceOf(tree, a), relevanceOf(tree, b))
         THEN RealLess(relevanceOf(tree, a), relevanceOf(tree, b))
         ELSE StringLess(displayOf(tree, a), displayOf(tree, b))

\* C6: a category with a match that contains every word of the query is ordered above
\* a category without one, whatever their types and relevances; when both or neither
\* have one, lessThan decides by type and relevance.
C6_QueryWordsOutrank ==
    \A a, b \in categoryRows :
        /\ (hasAllQueryWords(a) /\ ~hasAllQueryWords(b)) => posOf(a) < posOf(b)
        /\ (hasAllQueryWords(a) = hasAllQueryWords(b)) =>
               (lessThan(dataOf(Index(-1, a)), dataOf(Index(-1, b)))
                   <=> rankedBelowByTypeAndRelevance(Index(-1, a), Index(-1, b)))

\* a category of lower type is ordered above one of higher type because only it has a
\* match with all words of the query
C6_Witness ==
    /\ queryWords # <<>>
    /\ \E a, b \in categoryRows :
           /\ hasAllQueryWords(a)
           /\ ~hasAllQueryWords(b)
           /\ typeOf(tree, Index(-1, a)) < typeOf(tree, Index(-1, b))
           /\ posOf(a) < posOf(b)

\* x is ordered before y: then y has no higher type, and with the same type and
\* relevances that are not approximately equal, y has the lower relevance
orderedByTypeAndRelevance(x, y) ==
    /\ typeOf(tree, x) >= typeOf(tree, y)
    /\ (typeOf(tree, x) = typeOf(tree, y)
          /\ ~qFuzzyCompare(relevanceOf(tree, x), relevanceOf(tree, y)))
       => RealLess(relevanceOf(tree, y), relevanceOf(tree, x))

\* C7: of two sibling rows not separated by the query-word predicate the row with the
\* higher type is ordered first, and with exactly equal types and relevances that are
\* not approximately equal the row with the higher relevance is ordered first.
C7_HigherTypeAndRelevanceFirst ==
    /\ \A a, b \in categoryRows :
           (hasAllQueryWords(a) = hasAllQueryWords(b) /\ posOf(a) < posOf(b))
               => orderedByTypeAndRelevance(Index(-1, a), Index(-1, b))
    /\ \A c \in categoryRows :
           \A r1, r2 \in matchRows(c) :
               matchPosOf(c, r1) < matchPosOf(c, r2)
                   => orderedByTypeAndRelevance(Index(c, r1), Index(c, r2))

\* two categories that tie on the query-word predicate, type and relevance
tiedCategories(a, b) ==
    /\ a # b
    /\ hasAllQueryWords(a) = hasAllQueryWords(b)
    /\ typeOf(tree, Index(-1, a)) = typeOf(tree, Index(-1, b))
    /\ qFuzzyCompare(relevanceOf(tree, Index(-1, a)), relevanceOf(tree, Index(-1, b)))

\* C8 as stated: categories with equal type and approximately equal relevance, not
\* separated by the query-word predicate, keep their order of the source tree.
C8_SourceOrderKept ==
    \A a, b \in categoryRows : (tiedCategories(a, b) /\ a < b) => posOf(a) < posOf(b)

\* C8 amended: for such categories the default comparator on the display text, the
\* category label, decides and not the order of the source tree: A ranks below B iff
\* A's label is less than B's, and two such categories alone are shown with the
\* greater label first.
C8_DisplayTextDecides ==
    \A a, b \in categoryRows :
        tiedCategories(a, b) =>
            /\ lessThan(dataOf(Index(-1, a)), dataOf(Index(-1, b)))
                   <=> StringLess(tree[a + 1].name, tree[b + 1].name)
            /\ Len(tree) = 2 =>
                   (posOf(a) < posOf(b) <=> StringLess(tree[b + 1].name, tree[a + 1].name))

\* two tied categories, the first of the source tree with the lesser label, shown second
C8_Witness ==
    /\ Len(tree) = 2
    /\ tiedCategories(0, 1)
    /\ StringLess(tree[1].name, tree[2].name)
    /\ posOf(1) < posOf(0)

(***************************************************************************)
(* Properties of the final list (checked under Spec)                       *)
(***************************************************************************)
timesInList(list, display) ==
    Cardinality({i \in 1..Len(list) : displayOf(tree, list[i]) = display})

\* C9: a row of the final list reports duplicate = true iff at least two rows of the
\* final list, the row itself included, have exactly the same display text.
C9_DuplicateIffTextOccursTwice ==
    LET list == finalList
    IN  \A row \in 0..(Len(list) - 1) :
            duplicateData(list, row)
                <=> timesInList(list, displayOf(tree, list[row + 1])) >= 2

\* a text that occurs twice, both rows flagged, next to a row that differs from it in
\* case only and is not flagged
C9_Witness ==
    LET list == finalList
        text(i) == displayOf(tree, list[i])
    IN  \E i, j, k \in 1..Len(list) :
            /\ i # j
            /\ text(i) = text(j)
            /\ duplicateData(list, i - 1)
            /\ duplicateData(list, j - 1)
            /\ text(k) # text(i)
            /\ FoldCase(text(k)) = FoldCase(text(i))
            /\ ~duplicateData(list, k - 1)

\* the rows of the category at sorted position i that the budget stage accepts
budgetVisible(i) ==
    SelectSeq(RowsUpTo(itemsIn(i)),
              LAMBDA r : distributionFilterAcceptsRow(sortMap, m_limit, r, i))

\* the budget-visible matches of the categories from sorted position i on, in sorted
\* order, as nodes of the source tree
RECURSIVE visibleMatchesFrom(_)
visibleMatchesFrom(i) ==
    IF i >= categoryCount
    THEN <<>>
    ELSE LET rows == budgetVisible(i)
         IN  [k \in 1..Len(rows) |-> sortMapToSource(sortMap, Index(i, rows[k]))]
             \o visibleMatchesFrom(i + 1)

\* C10: the final list is the concatenation, in sorted category order, of each
\* category's budget-visible matches in their sorted order; every entry is a match
\* node of the tree with a valid category parent, none occurs twice, and no category
\* node is in the list.
C10_FinalListIsVisibleMatches ==
    LET list == finalList
    IN  /\ list = visibleMatchesFrom(0)
        /\ \A k \in 1..Len(list) :
               /\ list[k].parent \in categoryRows
               /\ list[k].row \in matchRows(list[k].parent)
        /\ \A k1, k2 \in 1..Len(list) : k1 # k2 => list[k1] # list[k2]

\* a limit hides some matches, and the list holds matches of several categories
C10_Witness ==
    LET list == finalList
    IN  /\ m_limit > 0
        /\ Len(tree) = 3
        /\ Len(list) >= 3
        /\ \E c \in categoryRows : \E r \in matchRows(c) :
               \A k \in 1..Len(list) : list[k] # Index(c, r)
        /\ \A c \in categoryRows : \E k \in 1..Len(list) : list[k].parent = c
        /\ list = visibleMatchesFrom(0)

(***************************************************************************)
(* Properties of the row operations and the runner (checked under          *)
(* SpecFacade)                                                             *)
(***************************************************************************)
RowOperations == {"run", "runAction", "getMimeData"}

failureOf(op) == IF op = "getMimeData" THEN "nullptr" ELSE "false"

knownRunnerIds == {Runners[k].id : k \in 1..Len(Runners)}

\* C11: a call of run, runAction or getMimeData with a row the final list does not
\* have returns false (run, runAction) or nothing (getMimeData), does not call the
\* operation of RunnerResultsModel, and changes no state.
C11_InvalidRowFails ==
    [][(/\ lastCall' # lastCall
        /\ lastCall'.op \in RowOperations
        /\ lastCall'.row \notin 0..(Len(finalList) - 1))
       => /\ lastCall'.returned = failureOf(lastCall'.op)
          /\ ~lastCall'.adapterCalled
          /\ ~isValid(lastCall'.resultsIdx)
          /\ UNCHANGED <<tree, queryString, queryRunner, m_words, m_limit, sortMap,
                         distMap, m_runner>>]_vars

\* run was called with the first row beyond a list that is not empty, and failed
C11_Witness ==
    /\ Len(finalList) >= 1
    /\ lastCall.op = "run"
    /\ lastCall.row = Len(finalList)
    /\ lastCall.returned = "false"
    /\ ~lastCall.adapterCalled

\* C12: after setRunner(id) with an id the registry does not know, runner() is the
\* empty id, runnerName() and runnerIcon() are empty, nothing is reported to the
\* caller, and a following setQueryString issues its query for all runners.
C12_UnknownRunnerMeansNoRunner ==
    /\ []((lastCall.op = "setRunner" /\ lastCall.id \notin knownRunnerIds)
            => /\ runner = <<>>
               /\ runnerName = <<>>
               /\ runnerIcon = <<>>
               /\ lastCall.returned = "void")
    /\ [][(/\ lastCall.op = "setRunner"
           /\ lastCall.id \notin knownRunnerIds
           /\ lastCall' = lastCall
           /\ (queryString' # queryString \/ queryRunner' # queryRunner))
          => queryRunner' = <<>>]_vars

\* a runner was active and its query issued; then an unknown id was set and the
\* query is one for all runners
C12_Witness ==
    /\ lastCall.op = "setRunner"
    /\ lastCall.id = sUnknown
    /\ runner = <<>>
    /\ queryString # <<>>
    /\ queryRunner = <<>>
    /\ emitted = NoSignals

\* C15: after setRunner changed the active runner while a query string is set, the
\* query RunnerResultsModel presents is one issued for the new runner.
C15_RunnerChangeSupersedesQuery ==
    [][(runner' # runner /\ queryString # <<>>) => queryRunner' = runner']_vars

\* C19: setRunner emits runnerChanged iff runner() after the call differs from
\* runner() before the call.
C19_RunnerChangedIffRunnerDiffers ==
    [][(emitted'.runnerChanged = 1) <=> (runner' # runner)]_vars

\* C17: limit() is 0 initially; setLimit(v) makes limit() return v, emits limitChanged
\* exactly once if v differs from the limit and otherwise neither emits nor invalidates
\* the filter; resetLimit() has the effect of setLimit(0); no other step emits
\* limitChanged.
C17_LimitProperty ==
    /\ m_limit = 0
    /\ [][/\ \A v \in Limits :
                 setLimit(v) =>
                     /\ m_limit' = v
                     /\ emitted'.limitChanged = (IF m_limit # v THEN 1 ELSE 0)
                     /\ m_limit = v => UNCHANGED <<sortMap, distMap>>
          /\ resetLimit =>
                 /\ m_limit' = 0
                 /\ emitted'.limitChanged = (IF m_limit # 0 THEN 1 ELSE 0)
                 /\ m_limit = 0 => UNCHANGED <<sortMap, distMap>>
          /\ (emitted'.limitChanged = 1) <=> (m_limit' # m_limit)]_vars

\* the limit was set to another value and limitChanged was emitted once
C17_Witness ==
    /\ m_limit = MaxLimit
    /\ emitted.limitChanged = 1
    /\ Len(tree) = 2

(***************************************************************************)
(* Properties of the invalidation (checked under Spec)                     *)
(***************************************************************************)
\* C13: the matches the budget stage shows are the ones filterAcceptsRow accepts for
\* the current sorted tree and the current limit, whatever inserts, removes, moves
\* and setLimit calls came before.
C13_NoStaleBudget ==
    \A i \in 0..(categoryCount - 1) :
        \A r \in 0..(itemsIn(i) - 1) :
            isVisible(i, r) <=> distributionFilterAcceptsRow(sortMap, m_limit, r, i)

\* the rows of the first category leave room for one row only of a later category
C13_Witness ==
    /\ m_limit > 0
    /\ categoryCount = 3
    /\ visibleCount(0) = 2
    /\ \E j \in 1..2 : itemsIn(j) = 2 /\ visibleCount(j) = 1 /\ ~isVisible(j, 1)

\* C14: the words of the sort stage are the non-empty words of the query string and
\* the order of categories and matches is one the comparator yields for these words.
C14_QueryStringInvalidatesOrder ==
    /\ m_words = split(queryString)
    /\ sortMap \in sortedMappings(tree, split(queryString))

\* the order of the categories is not one of the empty query
C14_Witness ==
    /\ queryString # <<>>
    /\ Len(tree) >= 2
    /\ sortMap \in sortedMappings(tree, split(queryString))
    /\ \A other \in sortedMappings(tree, <<>>) : other.top # sortMap.top

\* lessThan on the data of the rows below parentRow
siblingData(parentRow) == childrenData(tree, m_words, parentRow, 0)

lessThanIsStrictWeakOrderingOn(data) ==
    LET rows == 1..Len(data)
        equivalent(x, y) == ~lessThan(data[x], data[y]) /\ ~lessThan(data[y], data[x])
    IN  /\ \A x \in rows : ~lessThan(data[x], data[x])
        /\ \A x, y \in rows : lessThan(data[x], data[y]) => ~lessThan(data[y], data[x])
        /\ \A x, y, z \in rows :
               (lessThan(data[x], data[y]) /\ lessThan(data[y], data[z]))
                   => lessThan(data[x], data[z])
        /\ \A x, y, z \in rows :
               (equivalent(x, y) /\ equivalent(y, z)) => equivalent(x, z)

\* C18: lessThan is a strict weak ordering on the categories and on the matches of
\* every category: irreflexive, asymmetric and transitive, with a transitive
\* equivalence.
C18_LessThanIsStrictWeakOrdering ==
    \A parentRow \in (-1)..(Len(tree) - 1) :
        lessThanIsStrictWeakOrderingOn(siblingData(parentRow))

(***************************************************************************)
(* Monotony of the budget (checked under SpecBudget)                       *)
(***************************************************************************)
\* C16: with limit > 0 and more than one category, maxItemsInCategory never grows
\* with the position of the category.
C16_CapNeverGrows ==
    (m_limit > 0 /\ categoryCount > 1) =>
        \A i, j \in 0..(categoryCount - 1) :
            i < j => maxItemsInCategory(sortMap, m_limit, j)
                         <= maxItemsInCategory(sortMap, m_limit, i)

\* three categories whose caps fall strictly although the first has a single match
C16_Witness ==
    /\ m_limit > 0
    /\ categoryCount = 3
    /\ itemsIn(0) = 1
    /\ maxItemsInCategory(sortMap, m_limit, 1) < maxItemsInCategory(sortMap, m_limit, 0)
    /\ maxItemsInCategory(sortMap, m_limit, 2) < maxItemsInCategory(sortMap, m_limit, 1)

====
